---- MODULE Spec2Model ----
(***************************************************************************)
(* hivemind/averaging/control.py: StepControl, a cross-process future with *)
(* a shared scalar block and an attached trigger future.                   *)
(***************************************************************************)
EXTENDS Integers, FiniteSets, Sequences, TLC

(* ------------------------------ bounds -------------------------------- *)
\* number of handle copies (handle 1 is the constructed one, the others are
\* produced by __getstate__/__setstate__)
NumHandles == 2
\* number of distinct MPFuture objects that may be passed to attach_trigger
NumTriggers == 2
\* number of asyncio tasks that await the trigger or the handle
NumTasks == 2
\* depth at which the interpreter stops a recursion with RecursionError
RecursionLimit == 2

Handles == 1..NumHandles
Triggers == 1..NumTriggers
Tasks == 1..NumTasks
\* the value of StepControl._trigger before attach_trigger
None == 0

(* ------------------------- AveragingStage ----------------------------- *)
IDLE == 0
LOOKING_FOR_GROUP == 1
AWAITING_TRIGGER == 2
RUNNING_ALLREDUCE == 3
FINISHED == 4
AveragingStage == {IDLE, LOOKING_FOR_GROUP, AWAITING_TRIGGER, RUNNING_ALLREDUCE, FINISHED}

(* ------------------- 64-bit floats and their bytes -------------------- *)
\* a float is a finite integer-valued double, an infinity or a NaN
Fin(n) == [k |-> "fin", v |-> n]
PosInf == [k |-> "inf", v |-> 1]
NegInf == [k |-> "inf", v |-> -1]
NaN == [k |-> "nan", v |-> 0]

\* struct.pack("d", x): the two most significant bytes of the IEEE-754
\* encoding (the other six are zero for every value of the model)
pack_d(x) ==
    CASE x = Fin(0) -> 0
      [] x = Fin(1) -> 16368
      [] x = Fin(2) -> 16384
      [] x = Fin(3) -> 16392
      [] x = Fin(-1) -> 49136
      [] x = PosInf -> 32752
      [] x = NegInf -> 65520
      [] x = NaN -> 32760

\* struct.unpack("d", b)[0]
unpack_d(b) ==
    CASE b = 0 -> Fin(0)
      [] b = 16368 -> Fin(1)
      [] b = 16384 -> Fin(2)
      [] b = 16392 -> Fin(3)
      [] b = 49136 -> Fin(-1)
      [] b = 32752 -> PosInf
      [] b = 65520 -> NegInf
      [] b = 32760 -> NaN

\* x >= y on Python floats (every comparison with NaN is False)
float_ge(x, y) ==
    CASE x.k = "nan" \/ y.k = "nan" -> FALSE
      [] x.k = "inf" -> x.v = 1 \/ (y.k = "inf" /\ y.v = -1)
      [] y.k = "inf" -> y.v = -1
      [] OTHER -> x.v >= y.v

\* np.isfinite
isfinite(x) == x.k = "fin"

(* --------------------------- MPFuture --------------------------------- *)
\* hivemind.utils.MPFuture is imported by control.py; its states and the
\* operations control.py uses
MPFutureStates == {"PENDING", "FINISHED", "CANCELLED"}

MPFuture_done(s) == s # "PENDING"

\* set_result: resolves a pending future; a future has at most one resolution
MPFuture_set_result(s) ==
    IF s = "PENDING" THEN [state |-> "FINISHED", raised |-> "none"]
    ELSE [state |-> s, raised |-> "InvalidStateError"]

\* cancel: returns whether the future is cancelled afterwards
MPFuture_cancel(s) ==
    IF s = "PENDING" THEN [state |-> "CANCELLED", ret |-> TRUE]
    ELSE [state |-> s, ret |-> (s = "CANCELLED")]

\* await: the outcome delivered to an awaiting task, "suspend" while pending
MPFuture_await(s) ==
    CASE s = "PENDING" -> "suspend"
      [] s = "FINISHED" -> "returned"
      [] s = "CANCELLED" -> "CancelledError"

(* ----------------------------- state ---------------------------------- *)
VARIABLES
    constructed,      \* constructed[h]: handle copy h exists
    _trigger,         \* _trigger[h]: StepControl._trigger of copy h
    can_modify,       \* can_modify[h]: "unset" or FALSE (never read by the code)
    immutable_params, \* immutable_params[h]: _gather_binary, _deadline, _allow_retries
    _shared_buffer,   \* _shared_buffer[h]: the shared block that copy h refers to
    shared_memory,    \* shared_memory[b]: the 18 bytes of block b: two doubles,
                      \* the stage byte, the began byte
    _state,           \* state of the handle's own MPFuture (shared by all copies)
    trigger_state,    \* trigger_state[t]: state of trigger future t
    task,             \* task[p]: an asyncio task awaiting a trigger or the handle
    now,              \* get_dht_time()
    last,             \* the last call made and how it ended
    allow_called,     \* triggers on whose handle allow_allreduce() has been called
    allow_resolved,   \* triggers that an allow_allreduce() call resolved
    cancel_called,    \* whether cancel() has been called on the handle
    cancel_reached    \* triggers that a cancel() call has cancelled or found done

\* hivemind/optim/grad_scaler.py: one GradScaler used by several threads
VARIABLES
    _is_running_global_step,    \* GradScaler._is_running_global_step
    _is_ready_to_update,        \* GradScaler._is_ready_to_update
    _optimizer_states_to_reset, \* the optimizers whose state update() must refresh
    _per_optimizer_states,      \* per optimizer: its OptState and its inf check
    _scale,                     \* the gradient scale, as a power of the growth factor
    _lock,                      \* the RLock: the owning thread and its entry count
    thread,                     \* thread[th]: where thread th is in step(), and the
                                \* flag values saved by its open contexts
    scaler_call                 \* the last GradScaler call that completed

control_vars == <<constructed, _trigger, can_modify, immutable_params, _shared_buffer,
                  shared_memory, _state,
                  trigger_state, task, now, last, allow_called, allow_resolved,
                  cancel_called, cancel_reached>>

scaler_vars == <<_is_running_global_step, _is_ready_to_update, _optimizer_states_to_reset,
                 _per_optimizer_states, _scale, _lock, thread, scaler_call>>

vars == <<control_vars, scaler_vars>>

\* the shared blocks that may be allocated, and the reference of a copy that
\* has none
Blocks == 1..NumHandles
NoBlock == 0

\* the bytes that copy h reads and writes
buffer(h) == shared_memory[_shared_buffer[h]]

\* the part of the state that belongs to the handle and its futures
handle_state == <<constructed, _trigger, can_modify, immutable_params, _shared_buffer,
                  shared_memory,
                  _state, trigger_state>>

history == <<allow_called, allow_resolved, cancel_called, cancel_reached>>

(* ------------------------ input domains ------------------------------- *)
\* latest time the model clock reaches
MaxTime == 2
\* values offered to the scheduled_time setter and the constructor
Times == {Fin(0), Fin(1), Fin(2)}
\* values offered as the deadline
Deadlines == {Fin(1)}
\* values offered to the weight setter and the constructor
Weights == {Fin(-1), Fin(0), Fin(1), PosInf, NegInf, NaN}
\* values offered as gather_binary
Payloads == {"a"}

NoWarning == {}
Call(op, h, arg, outcome, warned) ==
    [op |-> op, h |-> h, arg |-> arg, outcome |-> outcome, warned |-> warned,
     reentries |-> 0, base_cancels |-> 0]

(* ------------------- shared scalar block accessors -------------------- *)
\* torch.zeros([18], dtype=torch.uint8)
zeros == [b0 |-> 0, b8 |-> 0, b16 |-> 0, b17 |-> 0]

\* property getters
scheduled_time(buf) == unpack_d(buf.b0)
weight(buf) == unpack_d(buf.b8)
stage(buf) == buf.b16
began_allreduce(buf) == buf.b17 # 0

\* scheduled_time.setter that refuses a time at or after the deadline
set_scheduled_time_before_deadline(buf, deadline, v) ==
    IF float_ge(v, deadline)
    THEN [buf |-> buf, raised |-> "none", warned |-> {"scheduled time after deadline"}]
    ELSE [buf |-> [buf EXCEPT !.b0 = pack_d(v)],
          raised |-> "none",
          warned |-> IF began_allreduce(buf)
                     THEN {"scheduled time after all-reduce started"} ELSE {}]

\* scheduled_time.setter: never rejects, warns twice at most
set_scheduled_time(buf, deadline, v) ==
    [buf |-> [buf EXCEPT !.b0 = pack_d(v)],
     raised |-> "none",
     warned |-> (IF began_allreduce(buf) THEN {"scheduled time after all-reduce started"} ELSE {})
                \cup (IF float_ge(v, deadline) THEN {"scheduled time after deadline"} ELSE {})]

\* weight.setter that checks the sign and forgets np.isfinite
set_weight_no_isfinite(buf, w) ==
    IF ~float_ge(w, Fin(0))
    THEN [buf |-> buf, raised |-> "AssertionError", warned |-> NoWarning]
    ELSE [buf |-> [buf EXCEPT !.b8 = pack_d(w)],
          raised |-> "none",
          warned |-> IF began_allreduce(buf) THEN {"weights after all-reduce started"} ELSE {}]

\* weight.setter: the assertion comes before the write
set_weight(buf, w) ==
    IF ~(float_ge(w, Fin(0)) /\ isfinite(w))
    THEN [buf |-> buf, raised |-> "AssertionError", warned |-> NoWarning]
    ELSE [buf |-> [buf EXCEPT !.b8 = pack_d(w)],
          raised |-> "none",
          warned |-> IF began_allreduce(buf) THEN {"weights after all-reduce started"} ELSE {}]

\* stage.setter that writes one byte too far
set_stage_byte_17(buf, s) == [buf EXCEPT !.b17 = s]

\* stage.setter: the write to the shared byte
set_stage(buf, s) == [buf EXCEPT !.b16 = s]

\* stage.setter: the handle-local flag
set_stage_can_modify(flag, s) == IF s = RUNNING_ALLREDUCE THEN "False" ELSE flag

\* began_allreduce.setter that writes one byte too early
set_began_allreduce_byte_16(buf, value) == [buf EXCEPT !.b16 = IF value THEN 1 ELSE 0]

\* began_allreduce.setter
set_began_allreduce(buf, value) == [buf EXCEPT !.b17 = IF value THEN 1 ELSE 0]

\* get_timeout without the max: the bare difference
get_timeout_no_max(deadline, t) == deadline.v - t

\* get_timeout at time t
get_timeout(deadline, t) == IF deadline.v - t > 0 THEN deadline.v - t ELSE 0

(* ============ hivemind/optim/grad_scaler.py: GradScaler ================ *)
\* threads that share the GradScaler
NumThreads == 2
\* deepest nesting of running_global_step() contexts in one thread
MaxNesting == 2
\* largest gradient scale, counted in growth steps
MaxScale == 3

Threads == 1..NumThreads
\* owner of a free lock
NoThread == 0

\* a hivemind.Optimizer and the torch optimizer it wraps (optimizer.opt)
Optimizers == {"hivemind.Optimizer", "opt"}
opt(optimizer) == "opt"
isinstance_hivemind(optimizer) == optimizer = "hivemind.Optimizer"

\* An optimizer state holds its OptState ("READY", "UNSCALED" or "STEPPED") and
\* its found_inf_per_device: "empty" when no check is recorded, "finite" for a
\* check that found no inf, "inf" for a check that found one.

\* torch.cuda.amp.grad_scaler._refresh_per_optimizer_state()
_refresh_per_optimizer_state == [stage |-> "READY", found_inf_per_device |-> "empty"]

\* the inf check of one optimizer on gradients that hold an inf/nan or not
found_inf(inf) == IF inf THEN "inf" ELSE "finite"

\* sum(v.item() for v in optimizer_state["found_inf_per_device"].values())
sum_found_inf(optimizer_state) ==
    IF optimizer_state.found_inf_per_device = "inf" THEN 1 ELSE 0

\* update(), lines 85-87: the sum over all optimizer states
total_infs(states) ==
    Cardinality({o \in Optimizers : sum_found_inf(states[o]) # 0})

\* are_grads_finite(optimizer, use_cached=True)
are_grads_finite(states, optimizer) == sum_found_inf(states[optimizer]) = 0

\* super().unscale_(optimizer): refuses a second unscale_ and an unscale_
\* after step(), else records the inf check and marks the state UNSCALED
TorchGradScaler_unscale_(optimizer_state, inf) ==
    IF optimizer_state.stage # "READY"
    THEN [raised |-> "RuntimeError", state |-> optimizer_state]
    ELSE [raised |-> "none",
          state |-> [stage |-> "UNSCALED", found_inf_per_device |-> found_inf(inf)]]

\* super().update(new_scale): sets the given scale, or backs off after an
\* inf and grows otherwise (growth interval 1); it needs a recorded check
\* unless a scale is given, and starts every optimizer state afresh
TorchGradScaler_update(scale, states, new_scale) ==
    IF new_scale # None
    THEN [raised |-> "none", scale |-> new_scale]
    ELSE IF \A o \in Optimizers : states[o].found_inf_per_device = "empty"
    THEN [raised |-> "AssertionError", scale |-> scale]
    ELSE IF total_infs(states) # 0
    THEN [raised |-> "none", scale |-> scale - 1]
    ELSE [raised |-> "none", scale |-> scale + 1]

\* with self._lock: an RLock lets its owner in again
lock_available(th) == _lock.owner \in {NoThread, th}
acquire(lock, th) == [owner |-> th, count |-> lock.count + 1]
release(lock) ==
    IF lock.count = 1 THEN [owner |-> NoThread, count |-> 0]
    ELSE [lock EXCEPT !.count = lock.count - 1]

IdleThread == [pc |-> "idle", optimizer |-> "none", was_running |-> <<>>]

ScalerCall(op, th, arg, result, running, super_update) ==
    [op |-> op, th |-> th, arg |-> arg, result |-> result, running |-> running,
     super_update |-> super_update]

\* GradScaler.__init__ with the initial scale in the middle of the range
GradScaler_init ==
    /\ _is_running_global_step = FALSE
    /\ _is_ready_to_update = FALSE
    /\ _optimizer_states_to_reset = {}
    /\ _per_optimizer_states = [o \in Optimizers |-> _refresh_per_optimizer_state]
    /\ _scale = 2
    /\ _lock = [owner |-> NoThread, count |-> 0]
    /\ thread = [th \in Threads |-> IdleThread]
    /\ scaler_call = ScalerCall("__init__", NoThread, "none", "returned", FALSE, FALSE)

\* with grad_scaler.running_global_step(): up to the yield
enter_running_global_step(th) ==
    /\ thread[th].pc = "idle"
    /\ Len(thread[th].was_running) < MaxNesting
    /\ lock_available(th)
    /\ _lock' = acquire(_lock, th)
    /\ thread' = [thread EXCEPT ![th].was_running = Append(@, _is_running_global_step)]
    /\ _is_running_global_step' = TRUE
    /\ scaler_call' = ScalerCall("running_global_step.__enter__", th, "none", "returned",
                                 _is_running_global_step, FALSE)
    /\ UNCHANGED <<_is_ready_to_update, _optimizer_states_to_reset, _per_optimizer_states,
                   _scale>>
    /\ UNCHANGED control_vars

\* the end of the with block, normally or by an exception raised in its
\* body: the finally clause, then the release of the lock
exit_running_global_step(th, raised) ==
    /\ thread[th].pc = "idle"
    /\ thread[th].was_running # <<>>
    /\ LET n == Len(thread[th].was_running)
           was_running == thread[th].was_running[n]
       IN  /\ _is_running_global_step' = was_running
           /\ thread' = [thread EXCEPT ![th].was_running = SubSeq(@, 1, n - 1)]
           /\ scaler_call' = ScalerCall("running_global_step.__exit__", th, was_running,
                                        IF raised THEN "raised" ELSE "returned",
                                        _is_running_global_step, FALSE)
    /\ _lock' = release(_lock)
    /\ UNCHANGED <<_is_ready_to_update, _optimizer_states_to_reset, _per_optimizer_states,
                   _scale>>
    /\ UNCHANGED control_vars

\* unscale_(optimizer), all of it under the lock
unscale_(th, optimizer, inf) ==
    /\ thread[th].pc = "idle"
    /\ lock_available(th)
    /\ IF ~isinstance_hivemind(optimizer)
       THEN /\ scaler_call' = ScalerCall("unscale_", th, optimizer, "AssertionError",
                                         _is_running_global_step, FALSE)
            /\ UNCHANGED <<_per_optimizer_states, _optimizer_states_to_reset>>
       ELSE IF _is_running_global_step
       THEN LET r == TorchGradScaler_unscale_(_per_optimizer_states[optimizer], inf)
            IN  /\ _per_optimizer_states' =
                       IF r.raised # "none" THEN _per_optimizer_states
                       ELSE [_per_optimizer_states EXCEPT ![optimizer] = r.state,
                                                          ![opt(optimizer)] = r.state]
                /\ scaler_call' = ScalerCall("unscale_", th, optimizer,
                                             IF r.raised # "none" THEN r.raised ELSE "True",
                                             TRUE, FALSE)
                /\ UNCHANGED _optimizer_states_to_reset
       ELSE /\ _per_optimizer_states' =
                   [_per_optimizer_states EXCEPT
                        ![optimizer].found_inf_per_device = found_inf(inf)]
            /\ _optimizer_states_to_reset' = _optimizer_states_to_reset \cup {optimizer}
            /\ scaler_call' = ScalerCall("unscale_", th, optimizer, "False", FALSE, FALSE)
    /\ UNCHANGED <<_is_running_global_step, _is_ready_to_update, _scale, _lock, thread>>
    /\ UNCHANGED control_vars

\* super().step(optimizer) on a state that needs no unscale_: refuses a
\* second step, needs a recorded inf check, marks the state STEPPED
TorchGradScaler_step(optimizer_state) ==
    IF optimizer_state.stage = "STEPPED"
    THEN [raised |-> "RuntimeError", state |-> optimizer_state]
    ELSE IF optimizer_state.found_inf_per_device = "empty"
    THEN [raised |-> "AssertionError", state |-> optimizer_state]
    ELSE [raised |-> "none", state |-> [optimizer_state EXCEPT !.stage = "STEPPED"]]

\* step(optimizer), line 63: the flag is read before any lock is taken and
\* the branch is chosen
step(th, optimizer) ==
    /\ thread[th].pc = "idle"
    /\ thread' = [thread EXCEPT
                      ![th].pc = IF _is_running_global_step THEN "step_global" ELSE "step_local",
                      ![th].optimizer = optimizer]
    /\ UNCHANGED <<_is_running_global_step, _is_ready_to_update, _optimizer_states_to_reset,
                   _per_optimizer_states, _scale, _lock, scaler_call>>
    /\ UNCHANGED control_vars

\* step(optimizer), lines 64-76: the global-step branch, entered once the
\* lock is free; the flag is not read again
step_global_branch(th) ==
    /\ thread[th].pc = "step_global"
    /\ lock_available(th)
    /\ LET optimizer == thread[th].optimizer
           failed == \/ isinstance_hivemind(optimizer)
                     \/ _per_optimizer_states[optimizer].stage # "UNSCALED"
           r == TorchGradScaler_step(_per_optimizer_states[optimizer])
           applied == are_grads_finite(_per_optimizer_states, optimizer)
       IN  /\ _per_optimizer_states' =
                  IF ~failed /\ applied /\ r.raised = "none"
                  THEN [_per_optimizer_states EXCEPT ![optimizer] = r.state]
                  ELSE _per_optimizer_states
           /\ _is_ready_to_update' =
                  IF failed \/ (applied /\ r.raised # "none") THEN _is_ready_to_update
                  ELSE TRUE
           /\ scaler_call' = ScalerCall("step", th,
                                        [optimizer |-> optimizer, branch |-> "global"],
                                        IF failed THEN "AssertionError"
                                        ELSE IF applied /\ r.raised # "none" THEN r.raised
                                        ELSE "True",
                                        _is_running_global_step, FALSE)
    /\ thread' = [thread EXCEPT ![th].pc = "idle", ![th].optimizer = "none"]
    /\ UNCHANGED <<_is_running_global_step, _optimizer_states_to_reset, _scale, _lock>>
    /\ UNCHANGED control_vars

\* step(optimizer), lines 77-81: the local branch.  super().step() calls
\* self.unscale_() for an optimizer whose state is READY, and that call takes
\* the lock.
step_local_branch(th, inf) ==
    /\ thread[th].pc = "step_local"
    /\ LET optimizer == thread[th].optimizer
           state == _per_optimizer_states[optimizer]
           unscaled == IF state.stage # "READY" THEN _per_optimizer_states
                       ELSE IF _is_running_global_step
                       THEN [_per_optimizer_states EXCEPT
                                 ![optimizer] = TorchGradScaler_unscale_(state, inf).state,
                                 ![opt(optimizer)] = TorchGradScaler_unscale_(state, inf).state]
                       ELSE [_per_optimizer_states EXCEPT
                                 ![optimizer].found_inf_per_device = found_inf(inf)]
           to_reset == IF state.stage = "READY" /\ ~_is_running_global_step
                       THEN _optimizer_states_to_reset \cup {optimizer}
                       ELSE _optimizer_states_to_reset
           r == TorchGradScaler_step(unscaled[optimizer])
       IN  /\ (isinstance_hivemind(optimizer) /\ state.stage = "READY") => lock_available(th)
           /\ IF ~isinstance_hivemind(optimizer)
              THEN /\ scaler_call' = ScalerCall("step", th,
                                                [optimizer |-> optimizer, branch |-> "local"],
                                                "AssertionError", _is_running_global_step, FALSE)
                   /\ UNCHANGED <<_per_optimizer_states, _optimizer_states_to_reset>>
              ELSE IF r.raised # "none"
              THEN /\ _per_optimizer_states' = unscaled
                   /\ _optimizer_states_to_reset' = to_reset
                   /\ scaler_call' = ScalerCall("step", th,
                                                [optimizer |-> optimizer, branch |-> "local"],
                                                r.raised, _is_running_global_step, FALSE)
              ELSE /\ _per_optimizer_states' = [unscaled EXCEPT ![optimizer] = r.state]
                   /\ _optimizer_states_to_reset' = to_reset \cup {optimizer}
                   /\ scaler_call' = ScalerCall("step", th,
                                                [optimizer |-> optimizer, branch |-> "local"],
                                                "False", _is_running_global_step, FALSE)
    /\ thread' = [thread EXCEPT ![th].pc = "idle", ![th].optimizer = "none"]
    /\ UNCHANGED <<_is_running_global_step, _is_ready_to_update, _scale, _lock>>
    /\ UNCHANGED control_vars

\* the scales that a caller passes to update(): none, or the largest
NewScales == {None, MaxScale}

\* update(new_scale) that hands every call to the underlying update
update_unconditional(th, new_scale) ==
    /\ thread[th].pc = "idle"
    /\ lock_available(th)
    /\ LET r == TorchGradScaler_update(_scale, _per_optimizer_states, new_scale)
       IN  /\ r.scale \in 1..MaxScale
           /\ _scale' = r.scale
           /\ _per_optimizer_states' =
                  IF r.raised # "none" THEN _per_optimizer_states
                  ELSE [o \in Optimizers |-> _refresh_per_optimizer_state]
           /\ _is_ready_to_update' = IF r.raised # "none" THEN _is_ready_to_update ELSE FALSE
           /\ scaler_call' = ScalerCall("update", th, new_scale,
                                        IF r.raised # "none" THEN r.raised ELSE "True",
                                        _is_running_global_step, TRUE)
           /\ UNCHANGED _optimizer_states_to_reset
    /\ UNCHANGED <<_is_running_global_step, _lock, thread>>
    /\ UNCHANGED control_vars

\* update(new_scale), all of it under the lock
update(th, new_scale) ==
    /\ thread[th].pc = "idle"
    /\ lock_available(th)
    /\ IF _is_ready_to_update \/ total_infs(_per_optimizer_states) # 0
       THEN LET r == TorchGradScaler_update(_scale, _per_optimizer_states, new_scale)
            IN  /\ r.scale \in 1..MaxScale
                /\ _scale' = r.scale
                /\ _per_optimizer_states' =
                       IF r.raised # "none" THEN _per_optimizer_states
                       ELSE [o \in Optimizers |-> _refresh_per_optimizer_state]
                /\ _is_ready_to_update' =
                       IF r.raised # "none" THEN _is_ready_to_update ELSE FALSE
                /\ scaler_call' = ScalerCall("update", th, new_scale,
                                             IF r.raised # "none" THEN r.raised ELSE "True",
                                             _is_running_global_step, TRUE)
                /\ UNCHANGED _optimizer_states_to_reset
       ELSE /\ _per_optimizer_states' =
                   [o \in Optimizers |->
                        IF o \in _optimizer_states_to_reset
                        THEN _refresh_per_optimizer_state ELSE _per_optimizer_states[o]]
            /\ _optimizer_states_to_reset' = {}
            /\ scaler_call' = ScalerCall("update", th, new_scale, "False",
                                         _is_running_global_step, FALSE)
            /\ UNCHANGED <<_scale, _is_ready_to_update>>
    /\ UNCHANGED <<_is_running_global_step, _lock, thread>>
    /\ UNCHANGED control_vars

(* --------------------------- construction ----------------------------- *)
\* StepControl.__init__ that passes the deadline where the scheduled time
\* belongs
StepControl_init_deadline_as_time(st, dl, w) ==
    LET b1 == set_stage(zeros, IDLE)
        r2 == set_scheduled_time(b1, dl, dl)
        r3 == set_weight(r2.buf, w)
        b4 == set_began_allreduce(r3.buf, FALSE)
    IN  IF r3.raised # "none"
        THEN [ok |-> FALSE, buf |-> r3.buf, raised |-> r3.raised, warned |-> r2.warned]
        ELSE [ok |-> TRUE, buf |-> b4, raised |-> "none", warned |-> r2.warned \cup r3.warned]

\* StepControl.__init__: the shared block after the four writes of the
\* constructor, or the failure of the weight assertion
StepControl_init(st, dl, w) ==
    LET b1 == set_stage(zeros, IDLE)
        r2 == set_scheduled_time(b1, dl, st)
        r3 == set_weight(r2.buf, w)
        b4 == set_began_allreduce(r3.buf, FALSE)
    IN  IF r3.raised # "none"
        THEN [ok |-> FALSE, buf |-> r3.buf, raised |-> r3.raised, warned |-> r2.warned]
        ELSE [ok |-> TRUE, buf |-> b4, raised |-> "none", warned |-> r2.warned \cup r3.warned]

IdleTask == [pc |-> "idle", op |-> "none", trigger |-> None,
             suspended |-> FALSE, started_done |-> FALSE]

\* the state after StepControl(st, dl, ar, w, gb), the arguments drawn from
\* the given sets
Constructed(STs, DLs, ARs, Ws, GBs) ==
    \E st \in STs, dl \in DLs, ar \in ARs, w \in Ws, gb \in GBs :
        LET r == StepControl_init(st, dl, w) IN
        /\ constructed = [h \in Handles |-> h = 1 /\ r.ok]
        /\ _trigger = [h \in Handles |-> None]
        /\ can_modify = [h \in Handles |-> "unset"]
        /\ immutable_params = [h \in Handles |->
               IF h = 1 THEN [gather_binary |-> gb, deadline |-> dl, allow_retries |-> ar]
               ELSE [gather_binary |-> "", deadline |-> Fin(0), allow_retries |-> FALSE]]
        /\ _shared_buffer = [h \in Handles |-> IF h = 1 THEN 1 ELSE NoBlock]
        /\ shared_memory = [b \in Blocks |-> IF b = 1 THEN r.buf ELSE zeros]
        /\ _state = "PENDING"
        /\ trigger_state = [t \in Triggers |-> "PENDING"]
        /\ task = [p \in Tasks |-> IdleTask]
        /\ now = 0
        /\ last = Call("__init__", 1, [scheduled_time |-> st, weight |-> w],
                       IF r.ok THEN "returned" ELSE r.raised, r.warned)
        /\ allow_called = {}
        /\ allow_resolved = {}
        /\ cancel_called = FALSE
        /\ cancel_reached = {}

Init == Constructed(Times, Deadlines, BOOLEAN, Weights, Payloads) /\ GradScaler_init

\* the trigger protocol reads none of the fields: one successful and one
\* failed construction stand for all
InitTrigger == Constructed({Fin(0)}, Deadlines, {TRUE}, {Fin(1), NaN}, {"a"}) /\ GradScaler_init

(* ------------------------- trigger protocol --------------------------- *)
\* attach_trigger without its assertion: a later trigger replaces the first
attach_trigger_overwrite(h, t) ==
    /\ constructed[h]
    /\ _trigger' = [_trigger EXCEPT ![h] = t]
    /\ last' = Call("attach_trigger", h, t, "returned", NoWarning)
    /\ UNCHANGED <<constructed, can_modify, immutable_params, _shared_buffer,
                   shared_memory, _state,
                   trigger_state, task, now, history>>
    /\ UNCHANGED scaler_vars

\* attach_trigger(trigger)
attach_trigger(h, t) ==
    /\ constructed[h]
    /\ IF _trigger[h] # None
       THEN /\ last' = Call("attach_trigger", h, t, "AssertionError", NoWarning)
            /\ UNCHANGED _trigger
       ELSE /\ _trigger' = [_trigger EXCEPT ![h] = t]
            /\ last' = Call("attach_trigger", h, t, "returned", NoWarning)
    /\ UNCHANGED <<constructed, can_modify, immutable_params, _shared_buffer,
                   shared_memory, _state,
                   trigger_state, task, now, history>>
    /\ UNCHANGED scaler_vars

\* allow_allreduce() that warns about a set trigger and never sets one
allow_allreduce_no_set(h) ==
    /\ constructed[h]
    /\ IF _trigger[h] = None
       THEN /\ last' = Call("allow_allreduce", h, None, "AssertionError", NoWarning)
            /\ UNCHANGED <<trigger_state, history>>
       ELSE /\ last' = Call("allow_allreduce", h, _trigger[h], "returned",
                            IF MPFuture_done(trigger_state[_trigger[h]])
                            THEN {"Trigger is already set"} ELSE NoWarning)
            /\ allow_called' = allow_called \cup {_trigger[h]}
            /\ UNCHANGED <<trigger_state, allow_resolved, cancel_called, cancel_reached>>
    /\ UNCHANGED <<constructed, _trigger, can_modify, immutable_params, _shared_buffer,
                   shared_memory, _state, task, now>>
    /\ UNCHANGED scaler_vars

\* allow_allreduce() without its assertion: None has no done()
allow_allreduce_no_assertion(h) ==
    /\ constructed[h]
    /\ IF _trigger[h] = None
       THEN /\ last' = Call("allow_allreduce", h, None, "AttributeError", NoWarning)
            /\ UNCHANGED <<trigger_state, history>>
       ELSE LET t == _trigger[h]
                r == MPFuture_set_result(trigger_state[t])
            IN  /\ trigger_state' = [trigger_state EXCEPT ![t] = r.state]
                /\ last' = Call("allow_allreduce", h, t,
                                IF r.raised = "none" THEN "returned" ELSE r.raised,
                                IF MPFuture_done(trigger_state[t])
                                THEN {"Trigger is already set"} ELSE NoWarning)
                /\ allow_called' = allow_called \cup {t}
                /\ allow_resolved' = IF r.raised = "none" THEN allow_resolved \cup {t}
                                     ELSE allow_resolved
                /\ UNCHANGED <<cancel_called, cancel_reached>>
    /\ UNCHANGED <<constructed, _trigger, can_modify, immutable_params, _shared_buffer,
                   shared_memory, _state, task, now>>
    /\ UNCHANGED scaler_vars

\* allow_allreduce(): the warning does not skip the set_result that follows it
allow_allreduce(h) ==
    /\ constructed[h]
    /\ IF _trigger[h] = None
       THEN /\ last' = Call("allow_allreduce", h, None, "AssertionError", NoWarning)
            /\ UNCHANGED <<trigger_state, history>>
       ELSE LET t == _trigger[h]
                warned == IF MPFuture_done(trigger_state[t])
                          THEN {"Trigger is already set"} ELSE NoWarning
                r == MPFuture_set_result(trigger_state[t])
            IN  /\ trigger_state' = [trigger_state EXCEPT ![t] = r.state]
                /\ last' = Call("allow_allreduce", h, t,
                                IF r.raised = "none" THEN "returned" ELSE r.raised, warned)
                /\ allow_called' = allow_called \cup {t}
                /\ allow_resolved' = IF r.raised = "none" THEN allow_resolved \cup {t}
                                     ELSE allow_resolved
                /\ UNCHANGED <<cancel_called, cancel_reached>>
    /\ UNCHANGED <<constructed, _trigger, can_modify, immutable_params, _shared_buffer,
                   shared_memory, _state, task, now>>
    /\ UNCHANGED scaler_vars

\* wait_for_trigger() written without the await: the task returns at once
wait_for_trigger_no_await(h, p) ==
    /\ constructed[h]
    /\ task[p].pc = "idle"
    /\ IF _trigger[h] = None
       THEN /\ task' = [task EXCEPT ![p] = [IdleTask EXCEPT !.pc = "AssertionError",
                                            !.op = "wait_for_trigger"]]
            /\ last' = Call("wait_for_trigger", h, None, "AssertionError", NoWarning)
       ELSE /\ task' = [task EXCEPT ![p] =
                   [pc |-> "returned", op |-> "wait_for_trigger", trigger |-> _trigger[h],
                    suspended |-> FALSE,
                    started_done |-> MPFuture_done(trigger_state[_trigger[h]])]]
            /\ last' = Call("wait_for_trigger", h, _trigger[h], "returned", NoWarning)
    /\ UNCHANGED <<handle_state, now, history>>
    /\ UNCHANGED scaler_vars

\* wait_for_trigger(), up to its first suspension: the assertion, then the
\* await of the trigger, which passes through when the trigger is done
wait_for_trigger(h, p) ==
    /\ constructed[h]
    /\ task[p].pc = "idle"
    /\ IF _trigger[h] = None
       THEN /\ task' = [task EXCEPT ![p] = [IdleTask EXCEPT !.pc = "AssertionError",
                                            !.op = "wait_for_trigger"]]
            /\ last' = Call("wait_for_trigger", h, None, "AssertionError", NoWarning)
       ELSE LET t == _trigger[h]
                o == MPFuture_await(trigger_state[t])
            IN  /\ task' = [task EXCEPT ![p] =
                       [pc |-> IF o = "suspend" THEN "waiting" ELSE o,
                        op |-> "wait_for_trigger", trigger |-> t,
                        suspended |-> (o = "suspend"),
                        started_done |-> MPFuture_done(trigger_state[t])]]
                /\ last' = Call("wait_for_trigger", h, t, o, NoWarning)
    /\ UNCHANGED <<handle_state, now, history>>
    /\ UNCHANGED scaler_vars

\* the rest of wait_for_trigger(): the event loop resumes the task once the
\* trigger it awaits is done
wait_for_trigger_resume(p) ==
    /\ task[p].pc = "waiting"
    /\ task[p].op = "wait_for_trigger"
    /\ MPFuture_done(trigger_state[task[p].trigger])
    /\ task' = [task EXCEPT ![p].pc = MPFuture_await(trigger_state[task[p].trigger])]
    /\ UNCHANGED <<handle_state, now, last, history>>
    /\ UNCHANGED scaler_vars

(* ------------------ the handle's own future --------------------------- *)
\* a task awaits the handle itself
await_handle(h, p) ==
    /\ constructed[h]
    /\ task[p].pc = "idle"
    /\ LET o == MPFuture_await(_state)
       IN  /\ task' = [task EXCEPT ![p] =
                  [pc |-> IF o = "suspend" THEN "waiting" ELSE o,
                   op |-> "await", trigger |-> None,
                   suspended |-> (o = "suspend"),
                   started_done |-> MPFuture_done(_state)]]
           /\ last' = Call("await", h, None, o, NoWarning)
    /\ UNCHANGED <<handle_state, now, history>>
    /\ UNCHANGED scaler_vars

await_handle_resume(p) ==
    /\ task[p].pc = "waiting"
    /\ task[p].op = "await"
    /\ MPFuture_done(_state)
    /\ task' = [task EXCEPT ![p].pc = MPFuture_await(_state)]
    /\ UNCHANGED <<handle_state, now, last, history>>
    /\ UNCHANGED scaler_vars

\* the worker posts the outcome of the step on the handle
set_result(h) ==
    /\ constructed[h]
    /\ LET r == MPFuture_set_result(_state)
       IN  /\ _state' = r.state
           /\ last' = Call("set_result", h, None,
                           IF r.raised = "none" THEN "returned" ELSE r.raised, NoWarning)
    /\ UNCHANGED <<constructed, _trigger, can_modify, immutable_params, _shared_buffer,
                   shared_memory, trigger_state, task, now, history>>
    /\ UNCHANGED scaler_vars

(* --------------------------- cancellation ----------------------------- *)
\* StepControl.cancel() in a frame at the given depth: it cancels the trigger
\* and calls StepControl.cancel() again; the base class is never reached and
\* the interpreter ends the recursion
RECURSIVE cancel_frame(_, _, _)
cancel_frame(trig, ts, depth) ==
    IF depth > RecursionLimit
    THEN [trigger_state |-> ts, outcome |-> "RecursionError",
          reentries |-> depth - 1, base_cancels |-> 0]
    ELSE LET ts1 == IF trig # None
                    THEN [ts EXCEPT ![trig] = MPFuture_cancel(ts[trig]).state]
                    ELSE ts
         IN  cancel_frame(trig, ts1, depth + 1)

\* cancel()
cancel(h) ==
    /\ constructed[h]
    /\ LET r == cancel_frame(_trigger[h], trigger_state, 1)
       IN  /\ trigger_state' = r.trigger_state
           /\ last' = [Call("cancel", h, _trigger[h], r.outcome, NoWarning)
                          EXCEPT !.reentries = r.reentries, !.base_cancels = r.base_cancels]
    /\ cancel_called' = TRUE
    /\ cancel_reached' = cancel_reached \cup (IF _trigger[h] # None THEN {_trigger[h]} ELSE {})
    /\ UNCHANGED <<constructed, _trigger, can_modify, immutable_params, _shared_buffer,
                   shared_memory, _state, task, now, allow_called, allow_resolved>>
    /\ UNCHANGED scaler_vars

(* --------------------------- field writes ----------------------------- *)
\* handle.scheduled_time = v
write_scheduled_time(h, v) ==
    /\ constructed[h]
    /\ LET r == set_scheduled_time(buffer(h), immutable_params[h].deadline, v)
       IN  /\ shared_memory' = [shared_memory EXCEPT ![_shared_buffer[h]] = r.buf]
           /\ last' = Call("scheduled_time", h, v, "returned", r.warned)
    /\ UNCHANGED <<constructed, _trigger, can_modify, immutable_params, _shared_buffer,
                   _state, trigger_state, task, now, history>>
    /\ UNCHANGED scaler_vars

\* handle.weight = w
write_weight(h, w) ==
    /\ constructed[h]
    /\ LET r == set_weight(buffer(h), w)
       IN  /\ shared_memory' = [shared_memory EXCEPT ![_shared_buffer[h]] = r.buf]
           /\ last' = Call("weight", h, w,
                           IF r.raised = "none" THEN "returned" ELSE r.raised, r.warned)
    /\ UNCHANGED <<constructed, _trigger, can_modify, immutable_params, _shared_buffer,
                   _state, trigger_state, task, now, history>>
    /\ UNCHANGED scaler_vars

\* handle.stage = s
write_stage(h, s) ==
    /\ constructed[h]
    /\ can_modify' = [can_modify EXCEPT ![h] = set_stage_can_modify(can_modify[h], s)]
    /\ shared_memory' = [shared_memory EXCEPT ![_shared_buffer[h]] = set_stage(buffer(h), s)]
    /\ last' = Call("stage", h, s, "returned", NoWarning)
    /\ UNCHANGED <<constructed, _trigger, immutable_params, _shared_buffer, _state,
                   trigger_state, task, now, history>>
    /\ UNCHANGED scaler_vars

\* handle.began_allreduce = value
write_began_allreduce(h, value) ==
    /\ constructed[h]
    /\ shared_memory' = [shared_memory EXCEPT
                            ![_shared_buffer[h]] = set_began_allreduce(buffer(h), value)]
    /\ last' = Call("began_allreduce", h, value, "returned", NoWarning)
    /\ UNCHANGED <<constructed, _trigger, can_modify, immutable_params, _shared_buffer,
                   _state, trigger_state, task, now, history>>
    /\ UNCHANGED scaler_vars

\* handle.get_timeout()
call_get_timeout(h) ==
    /\ constructed[h]
    /\ last' = Call("get_timeout", h, now,
                    get_timeout(immutable_params[h].deadline, now), NoWarning)
    /\ UNCHANGED <<handle_state, task, now, history>>
    /\ UNCHANGED scaler_vars

\* get_dht_time() advances
tick ==
    /\ now < MaxTime
    /\ now' = now + 1
    /\ UNCHANGED <<handle_state, task, last, history>>
    /\ UNCHANGED scaler_vars

(* --------------------------- serialization ---------------------------- *)
\* a transfer that pickles the 18 bytes by value: the copy receives a block
\* of its own, filled with the bytes the block had at the time
getstate_setstate_by_value(h, c) ==
    /\ constructed[h]
    /\ ~constructed[c]
    /\ constructed' = [constructed EXCEPT ![c] = TRUE]
    /\ _trigger' = [_trigger EXCEPT ![c] = _trigger[h]]
    /\ immutable_params' = [immutable_params EXCEPT ![c] = immutable_params[h]]
    /\ last' = Call("__setstate__", c, h, "returned", NoWarning)
    /\ _shared_buffer' = [_shared_buffer EXCEPT ![c] = c]
    /\ shared_memory' = [shared_memory EXCEPT ![c] = buffer(h)]
    /\ UNCHANGED <<can_modify, _state, trigger_state, task, now, history>>
    /\ UNCHANGED scaler_vars

\* a transfer whose __getstate__ leaves out immutable_params: the copy keeps
\* the parameters of an empty handle
getstate_setstate_no_params(h, c) ==
    /\ constructed[h]
    /\ ~constructed[c]
    /\ constructed' = [constructed EXCEPT ![c] = TRUE]
    /\ _trigger' = [_trigger EXCEPT ![c] = _trigger[h]]
    /\ last' = Call("__setstate__", c, h, "returned", NoWarning)
    /\ _shared_buffer' = [_shared_buffer EXCEPT ![c] = _shared_buffer[h]]
    /\ UNCHANGED <<can_modify, immutable_params, shared_memory, _state, trigger_state,
                   task, now, history>>
    /\ UNCHANGED scaler_vars

\* __getstate__ of copy h followed by __setstate__ into the new copy c: the
\* trigger, the shared block and the immutable parameters travel, the flag
\* can_modify does not
getstate_setstate(h, c) ==
    /\ constructed[h]
    /\ ~constructed[c]
    /\ constructed' = [constructed EXCEPT ![c] = TRUE]
    /\ _trigger' = [_trigger EXCEPT ![c] = _trigger[h]]
    /\ immutable_params' = [immutable_params EXCEPT ![c] = immutable_params[h]]
    /\ last' = Call("__setstate__", c, h, "returned", NoWarning)
    /\ _shared_buffer' = [_shared_buffer EXCEPT ![c] = _shared_buffer[h]]
    /\ UNCHANGED <<can_modify, shared_memory, _state, trigger_state, task, now, history>>
    /\ UNCHANGED scaler_vars

(* --------------------------- specification ---------------------------- *)
\* The operations of the handle fall in two groups that share no mutable
\* state: the trigger protocol, the handle's future and cancellation act on
\* _trigger, trigger_state, _state and the tasks; the field accessors and
\* get_timeout act on shared_memory, can_modify and the clock.  Each group
\* is explored together with serialization, from every constructed handle.

\* trigger protocol, the handle's future, cancellation, serialization
Next ==
    \/ \E h \in Handles, t \in Triggers : attach_trigger(h, t)
    \/ \E h \in Handles : allow_allreduce(h)
    \/ \E h \in Handles, p \in Tasks : wait_for_trigger(h, p)
    \/ \E p \in Tasks : wait_for_trigger_resume(p)
    \/ \E h \in Handles, p \in Tasks : await_handle(h, p)
    \/ \E p \in Tasks : await_handle_resume(p)
    \/ \E h \in Handles : set_result(h)
    \/ \E h \in Handles : cancel(h)
    \/ \E h, c \in Handles : getstate_setstate(h, c)

Spec == InitTrigger /\ [][Next]_vars

\* the event loop runs every task whose awaited future is done
FairSpec ==
    Spec /\ \A p \in Tasks : WF_vars(wait_for_trigger_resume(p)) /\ WF_vars(await_handle_resume(p))

\* field accessors, get_timeout, the clock, serialization
NextFields ==
    \/ \E h \in Handles, v \in Times : write_scheduled_time(h, v)
    \/ \E h \in Handles, w \in Weights : write_weight(h, w)
    \/ \E h \in Handles, s \in AveragingStage : write_stage(h, s)
    \/ \E h \in Handles, value \in BOOLEAN : write_began_allreduce(h, value)
    \/ \E h \in Handles : call_get_timeout(h)
    \/ tick
    \/ \E h, c \in Handles : getstate_setstate(h, c)

FieldSpec == Init /\ [][NextFields]_vars

\* a handle that crosses the process boundary: the controller keeps copy 1,
\* the worker receives copy 2; either side writes the fields, attaches or
\* resolves the trigger and waits for it.  One construction and one new value
\* per field stand for all: what is checked is which copy sees the write.
InitTransfer == Constructed({Fin(0)}, Deadlines, {TRUE}, {Fin(1)}, Payloads) /\ GradScaler_init

NextTransfer ==
    \/ \E h, c \in Handles : getstate_setstate(h, c)
    \/ \E h \in Handles : write_scheduled_time(h, Fin(2))
    \/ \E h \in Handles : write_weight(h, Fin(0))
    \/ \E h \in Handles : write_stage(h, RUNNING_ALLREDUCE)
    \/ \E h \in Handles : write_began_allreduce(h, TRUE)
    \/ \E h \in Handles, t \in Triggers : attach_trigger(h, t)
    \/ \E h \in Handles : allow_allreduce(h)
    \/ \E h \in Handles, p \in Tasks : wait_for_trigger(h, p)
    \/ \E p \in Tasks : wait_for_trigger_resume(p)

TransferSpec == InitTransfer /\ [][NextTransfer]_vars

\* every operation of the handle on either copy, for the parameters that no
\* operation is meant to touch: both values of allow_retries, one new value
\* per field, one trigger and one waiting task
InitParams == Constructed({Fin(0)}, Deadlines, BOOLEAN, {Fin(1)}, Payloads) /\ GradScaler_init

NextParams ==
    \/ \E h, c \in Handles : getstate_setstate(h, c)
    \/ \E h \in Handles : write_scheduled_time(h, Fin(2))
    \/ \E h \in Handles : write_weight(h, Fin(0))
    \/ \E h \in Handles : write_stage(h, FINISHED)
    \/ \E h \in Handles : write_began_allreduce(h, TRUE)
    \/ \E h \in Handles : attach_trigger(h, 1)
    \/ \E h \in Handles : allow_allreduce(h)
    \/ \E h \in Handles : wait_for_trigger(h, 1)
    \/ wait_for_trigger_resume(1)
    \/ \E h \in Handles : call_get_timeout(h)
    \/ \E h \in Handles : cancel(h)

ParamsSpec == InitParams /\ [][NextParams]_vars

\* the GradScaler under every interleaving of its threads, beside one handle
\* that no thread touches
InitScaler == Constructed({Fin(0)}, Deadlines, {TRUE}, {Fin(1)}, Payloads) /\ GradScaler_init

NextScaler ==
    \/ \E th \in Threads : enter_running_global_step(th)
    \/ \E th \in Threads, raised \in BOOLEAN : exit_running_global_step(th, raised)
    \/ \E th \in Threads, optimizer \in Optimizers, inf \in BOOLEAN :
           unscale_(th, optimizer, inf)
    \/ \E th \in Threads, optimizer \in Optimizers : step(th, optimizer)
    \/ \E th \in Threads : step_global_branch(th)
    \/ \E th \in Threads, inf \in BOOLEAN : step_local_branch(th, inf)
    \/ \E th \in Threads, new_scale \in NewScales : update(th, new_scale)

ScalerSpec == InitScaler /\ [][NextScaler]_vars

(* ============================ trigger gate ============================= *)
TaskOutcomes == {"returned", "CancelledError", "AssertionError"}

\* C1: a wait_for_trigger() call has an outcome only when the trigger it
\* awaits is done; it returns normally only when that trigger is finished and
\* an allow_allreduce() call resolved it, and on a cancelled trigger it ends
\* with CancelledError.
C1_TriggerGateSafety ==
    \A p \in Tasks :
        (task[p].op = "wait_for_trigger" /\ task[p].trigger # None) =>
            /\ task[p].pc \in TaskOutcomes => trigger_state[task[p].trigger] # "PENDING"
            /\ task[p].pc = "returned" =>
                   /\ trigger_state[task[p].trigger] = "FINISHED"
                   /\ task[p].trigger \in allow_resolved
            /\ task[p].pc = "CancelledError" => trigger_state[task[p].trigger] = "CANCELLED"
            /\ task[p].pc # "AssertionError"

\* a task that suspended in wait_for_trigger() and returned after the resolution
C1_Witness ==
    \E p \in Tasks :
        /\ task[p].op = "wait_for_trigger"
        /\ task[p].suspended
        /\ task[p].pc = "returned"

\* C2: once allow_allreduce() has been called on a handle whose trigger is t,
\* every task waiting on t eventually leaves wait_for_trigger(), with a normal
\* return when the call resolved t; and a wait_for_trigger() that starts on a
\* finished trigger returns without suspending.
C2_TriggerGateLiveness ==
    /\ \A p \in Tasks :
           (/\ task[p].op = "wait_for_trigger"
            /\ task[p].pc = "waiting"
            /\ task[p].trigger \in allow_called) ~> (task[p].pc \in TaskOutcomes)
    /\ \A p \in Tasks :
           (/\ task[p].op = "wait_for_trigger"
            /\ task[p].pc = "waiting"
            /\ task[p].trigger \in allow_resolved) ~> (task[p].pc = "returned")
    /\ [](\A p \in Tasks :
             (/\ task[p].op = "wait_for_trigger"
              /\ task[p].started_done
              /\ trigger_state[task[p].trigger] = "FINISHED") =>
                 (~task[p].suspended /\ task[p].pc = "returned"))

\* one task suspended before the resolution and has returned, another started
\* after it and returned without suspending
C2_Witness ==
    \E p, q \in Tasks :
        /\ task[p].op = "wait_for_trigger" /\ task[q].op = "wait_for_trigger"
        /\ task[p].trigger = task[q].trigger
        /\ task[p].trigger \in allow_resolved
        /\ task[p].suspended /\ task[p].pc = "returned"
        /\ task[q].started_done /\ ~task[q].suspended /\ task[q].pc = "returned"

(* ============================ cancellation ============================= *)
\* what a cancel() that returns can return
CancelReturns == {"True", "False"}

\* C3: cancel() on a pending handle with an attached, unresolved trigger
\* leaves both the trigger and the handle cancelled.
C3_CancelCancelsTriggerAndHandle ==
    [][\A h \in Handles :
          (/\ cancel(h)
           /\ _trigger[h] # None
           /\ trigger_state[_trigger[h]] = "PENDING"
           /\ _state = "PENDING") =>
              (/\ trigger_state'[_trigger[h]] = "CANCELLED"
               /\ _state' = "CANCELLED")]_vars

\* C4: every cancel() call returns a boolean, having invoked the base
\* future's cancellation exactly once and itself never.
C4_CancelTerminates ==
    [][\A h \in Handles :
          cancel(h) =>
              (/\ last'.outcome \in CancelReturns
               /\ last'.base_cancels = 1
               /\ last'.reentries = 0)]_vars

\* C5: a cancel() call that follows an earlier cancel() does not raise and
\* leaves the handle's future, the triggers and the shared fields unchanged.
C5_CancelIdempotent ==
    [][\A h \in Handles :
          (cancel(h) /\ cancel_called) =>
              (/\ last'.outcome \in CancelReturns
               /\ UNCHANGED <<_state, trigger_state, _shared_buffer, shared_memory>>)]_vars

\* C6: once cancel() has been called, no task stays suspended: neither a task
\* awaiting the handle nor a task in wait_for_trigger() on a trigger that the
\* cancel() call reached.
C6_CancelReleasesWaiters ==
    \A p \in Tasks :
        (/\ task[p].pc = "waiting"
         /\ \/ task[p].op = "await" /\ cancel_called
            \/ task[p].op = "wait_for_trigger" /\ task[p].trigger \in cancel_reached)
        ~> (task[p].pc \in TaskOutcomes)

(* ======================= allow_allreduce, attach ======================= *)
\* C7: with a trigger attached no allow_allreduce() call raises; a call on a
\* trigger that is already done warns and leaves the trigger's state as it is.
C7_AllowAllreduceRepeatable ==
    [][\A h \in Handles :
          (allow_allreduce(h) /\ _trigger[h] # None) =>
              (/\ last'.outcome = "returned"
               /\ MPFuture_done(trigger_state[_trigger[h]]) =>
                      (/\ last'.warned = {"Trigger is already set"}
                       /\ UNCHANGED trigger_state))]_vars

\* C8: on a handle without a trigger, allow_allreduce() and wait_for_trigger()
\* end with AssertionError, the caller is not suspended and the handle, its
\* future, its triggers and its shared fields are unchanged.
C8_NoTriggerFailsSynchronously ==
    [][\A h \in Handles :
          (constructed[h] /\ _trigger[h] = None) =>
              (/\ allow_allreduce(h) =>
                      (/\ last'.outcome = "AssertionError"
                       /\ UNCHANGED <<handle_state, task>>)
               /\ \A p \in Tasks :
                      wait_for_trigger(h, p) =>
                          (/\ last'.outcome = "AssertionError"
                           /\ task'[p].pc = "AssertionError"
                           /\ ~task'[p].suspended
                           /\ UNCHANGED handle_state))]_vars

\* both calls have failed on a handle without a trigger
C8_Witness ==
    /\ last.op = "allow_allreduce"
    /\ last.outcome = "AssertionError"
    /\ _trigger[last.h] = None
    /\ \E p \in Tasks : task[p].op = "wait_for_trigger" /\ task[p].pc = "AssertionError"

\* C9: attach_trigger(t) succeeds on a handle without a trigger and makes t
\* its trigger; on a handle with a trigger it ends with AssertionError; and an
\* attached trigger is never replaced.
C9_AttachTriggerOnce ==
    /\ [][\A h \in Handles, t \in Triggers :
             attach_trigger(h, t) =>
                 IF _trigger[h] = None
                 THEN last'.outcome = "returned" /\ _trigger'[h] = t
                 ELSE last'.outcome = "AssertionError" /\ _trigger'[h] = _trigger[h]]_vars
    /\ [][\A h \in Handles : _trigger[h] # None => _trigger'[h] = _trigger[h]]_vars

\* a second attach_trigger with another trigger has failed
C9_Witness ==
    /\ last.op = "attach_trigger"
    /\ last.outcome = "AssertionError"
    /\ _trigger[last.h] # None
    /\ _trigger[last.h] # last.arg

(* =============================== weight ================================ *)
\* the weights the documentation accepts
ValidWeight(w) == w.k = "fin" /\ w.v >= 0

\* C10: weight = w, in the constructor or later, stores w when w >= 0 and w
\* is finite, and otherwise ends with AssertionError and leaves the stored
\* weight (the whole shared block, for the setter) as it was; a construction
\* with such a weight fails.
C10_WeightValidated ==
    /\ [](last.op = "__init__" =>
             IF ValidWeight(last.arg.weight)
             THEN /\ constructed[1]
                  /\ last.outcome = "returned"
                  /\ weight(buffer(1)) = last.arg.weight
             ELSE /\ ~constructed[1]
                  /\ last.outcome = "AssertionError"
                  /\ buffer(1).b8 = zeros.b8)
    /\ [][\A h \in Handles, w \in Weights :
             (last'.op = "weight" /\ last'.h = h /\ last'.arg = w /\ write_weight(h, w)) =>
                 IF ValidWeight(w)
                 THEN last'.outcome = "returned" /\ weight(buffer(h)') = w
                 ELSE last'.outcome = "AssertionError" /\ UNCHANGED handle_state]_vars

\* a rejected write has left a weight stored earlier in place
C10_Witness ==
    /\ last.op = "weight"
    /\ last.outcome = "AssertionError"
    /\ last.arg = PosInf
    /\ weight(buffer(last.h)) = Fin(1)

(* ============================ shared fields ============================ *)
\* C11: once a handle has set stage to RUNNING_ALLREDUCE (its can_modify is
\* False), a write of scheduled_time or weight through that handle's setters
\* is rejected: the stored scheduled_time and weight stay as they were.
C11_FrozenAfterRunningAllreduce ==
    [][\A h \in Handles :
          (/\ can_modify[h] = "False"
           /\ last'.op \in {"scheduled_time", "weight"}
           /\ last'.h = h
           /\ \/ \E v \in Times : write_scheduled_time(h, v)
              \/ \E w \in Weights : write_weight(h, w)) =>
              (/\ scheduled_time(buffer(h)') = scheduled_time(buffer(h))
               /\ weight(buffer(h)') = weight(buffer(h)))]_vars

\* C12: a write of scheduled_time always returns and stores the value, also
\* a value at or after the deadline and also after began_allreduce is true;
\* the value is then read back through every copy of the handle, and the
\* only feedback is the two warnings.
C12_ScheduledTimeAlwaysStored ==
    [][\A h \in Handles, v \in Times :
          (/\ last'.op = "scheduled_time" /\ last'.h = h /\ last'.arg = v
           /\ write_scheduled_time(h, v)) =>
              (/\ last'.outcome = "returned"
               /\ scheduled_time(buffer(h)') = v
               /\ ("scheduled time after deadline" \in last'.warned)
                      <=> (v.v >= immutable_params[h].deadline.v)
               /\ ("scheduled time after all-reduce started" \in last'.warned)
                      <=> (buffer(h).b17 = 1))]_vars

\* a write at the deadline, after all-reduce began, is stored with both warnings
C12_Witness ==
    /\ last.op = "scheduled_time"
    /\ last.outcome = "returned"
    /\ Cardinality(last.warned) = 2
    /\ last.arg.v >= immutable_params[last.h].deadline.v
    /\ began_allreduce(buffer(last.h))
    /\ scheduled_time(buffer(last.h)) = last.arg

C15_InitialState ==
    last.op = "__init__" =>
        /\ constructed[1] <=> last.outcome = "returned"
        /\ last.outcome = "returned" =>
               (/\ stage(buffer(1)) = IDLE
                /\ ~began_allreduce(buffer(1))
                /\ _trigger[1] = None
                /\ scheduled_time(buffer(1)) = last.arg.scheduled_time
                /\ weight(buffer(1)) = last.arg.weight)

\* a handle constructed with a scheduled time that differs from its weight
\* and from its deadline
C15_Witness ==
    /\ last.op = "__init__"
    /\ last.outcome = "returned"
    /\ constructed[1]
    /\ last.arg.scheduled_time = Fin(0)
    /\ last.arg.weight = Fin(1)
    /\ scheduled_time(buffer(1)) = Fin(0)
    /\ weight(buffer(1)) = Fin(1)


(* ============================== timeout ================================ *)
\* C16: get_timeout() returns max(0, deadline - now): the result is never
\* negative, it is 0 whenever now >= deadline, and of two calls on copies of
\* one handle with the first at a time not after the second, the second
\* result is not larger than the first.
C16_GetTimeout ==
    /\ [](last.op = "get_timeout" =>
            LET dl == immutable_params[last.h].deadline.v IN
            /\ last.outcome >= 0
            /\ last.arg >= dl => last.outcome = 0
            /\ last.arg < dl => last.outcome = dl - last.arg)
    /\ [][\A h \in Handles :
            (/\ last.op = "get_timeout"
             /\ last'.op = "get_timeout" /\ last'.h = h
             /\ call_get_timeout(h)
             /\ last.arg <= last'.arg) =>
                last'.outcome <= last.outcome]_vars

\* a call after the deadline has passed, answered 0
C16_Witness ==
    /\ last.op = "get_timeout"
    /\ constructed[last.h]
    /\ last.arg = MaxTime
    /\ last.arg > immutable_params[last.h].deadline.v
    /\ last.outcome = 0


(* ============================ serialization ============================ *)
\* C17: __getstate__ then __setstate__ preserves shared identity.  The copy
\* receives the reference to the same shared block and the same trigger as the
\* handle it was made from, and the two keep agreeing on both; so the value
\* that a setter of scheduled_time, weight, stage or began_allreduce stores
\* through one copy is what every copy reads next, and an allow_allreduce()
\* that resolves the trigger through one copy leaves every task that waits on
\* the trigger of the other copy ready to resume and return.
C17_TransferPreservesIdentity ==
    /\ [](\A h, c \in Handles :
            (constructed[h] /\ constructed[c]) =>
                (_shared_buffer[h] # NoBlock /\ _shared_buffer[c] = _shared_buffer[h]))
    /\ [][\A h, c \in Handles :
            /\ (last'.op = "__setstate__" /\ last'.h = c /\ getstate_setstate(h, c)) =>
                   (/\ _shared_buffer'[c] = _shared_buffer[h]
                    /\ _trigger'[c] = _trigger[h]
                    /\ _shared_buffer'[h] = _shared_buffer[h]
                    /\ _trigger'[h] = _trigger[h]
                    /\ shared_memory' = shared_memory)
            /\ (constructed[h] /\ constructed[c] /\ _trigger[h] # None
                    /\ _trigger[c] = _trigger[h]) =>
                   (_trigger'[h] = _trigger[h] /\ _trigger'[c] = _trigger[h])
            /\ (constructed[c] /\ last'.h = h /\ last'.outcome = "returned") =>
                   (/\ (last'.op = "scheduled_time" /\ write_scheduled_time(h, last'.arg)) =>
                           scheduled_time(buffer(c)') = last'.arg
                    /\ (last'.op = "weight" /\ write_weight(h, last'.arg)) =>
                           weight(buffer(c)') = last'.arg
                    /\ (last'.op = "stage" /\ write_stage(h, last'.arg)) =>
                           stage(buffer(c)') = last'.arg
                    /\ (last'.op = "began_allreduce" /\ write_began_allreduce(h, last'.arg)) =>
                           began_allreduce(buffer(c)') = last'.arg
                    /\ (last'.op = "allow_allreduce" /\ allow_allreduce(h)
                            /\ _trigger[c] = _trigger[h]) =>
                           \A p \in Tasks :
                               (task[p].pc = "waiting" /\ task[p].op = "wait_for_trigger"
                                    /\ task[p].trigger = _trigger[c]) =>
                                   MPFuture_await(trigger_state'[task[p].trigger]) = "returned")]_vars

\* the controller has resolved the trigger through copy 1 while a task is
\* suspended on the trigger of copy 2, and copy 2 reads the stage and the
\* began flag that were written through copy 1 alone
C17_Witness ==
    /\ constructed[1] /\ constructed[2]
    /\ last.op = "allow_allreduce" /\ last.h = 1 /\ last.outcome = "returned"
    /\ _trigger[2] = last.arg
    /\ \E p \in Tasks : /\ task[p].pc = "waiting"
                        /\ task[p].trigger = _trigger[2]
                        /\ MPFuture_done(trigger_state[task[p].trigger])
    /\ can_modify[1] = "False" /\ can_modify[2] = "unset"
    /\ stage(buffer(2)) = RUNNING_ALLREDUCE
    /\ scheduled_time(buffer(2)) = Fin(2)


(* ======================== immutable parameters ========================= *)
\* C18: deadline, allow_retries and gather_binary are fixed at construction.
\* No step of any operation (the field setters, attach_trigger,
\* allow_allreduce, wait_for_trigger and its resumption, get_timeout, cancel,
\* a transfer) changes the three values of a constructed copy, and the copy
\* made by __getstate__ / __setstate__ has the three values of its origin, so
\* that all copies hold the same three values.
C18_ImmutableParams ==
    /\ [](\A h, c \in Handles :
            (constructed[h] /\ constructed[c]) => immutable_params[c] = immutable_params[h])
    /\ [][\A h \in Handles :
            /\ constructed[h] => immutable_params'[h] = immutable_params[h]
            /\ \A c \in Handles :
                   (last'.op = "__setstate__" /\ last'.h = c /\ getstate_setstate(h, c)) =>
                       (/\ immutable_params'[c].deadline = immutable_params[h].deadline
                        /\ immutable_params'[c].allow_retries = immutable_params[h].allow_retries
                        /\ immutable_params'[c].gather_binary = immutable_params[h].gather_binary)]_vars

\* a copy of a handle built with allow_retries = True, after cancel() has run
\* on it and a field has been written: it still holds the constructor's values
C18_Witness ==
    /\ constructed[1] /\ constructed[2]
    /\ cancel_called
    /\ began_allreduce(buffer(2))
    /\ _trigger[2] # None
    /\ immutable_params[2].allow_retries
    /\ immutable_params[2].deadline \in Deadlines
    /\ immutable_params[2].gather_binary \in Payloads


(* ============================= GradScaler ============================== *)
\* C19: update() invokes the underlying scale update only when
\* _is_ready_to_update is set or some optimizer state records an inf; any
\* other update() leaves the scale and _is_ready_to_update as they are,
\* refreshes exactly the optimizer states named in _optimizer_states_to_reset,
\* empties that set and returns False.  _is_ready_to_update is set only by a
\* step() that completes its global-step branch and cleared only by an update()
\* that reached the underlying update, so without an explicit new_scale the
\* scale grows only after a global step.
C19_UpdateOnlyAfterGlobalStepOrInf ==
    [][/\ \A th \in Threads, new_scale \in NewScales :
            (/\ scaler_call'.op = "update" /\ scaler_call'.th = th
             /\ scaler_call'.arg = new_scale
             /\ update(th, new_scale)) =>
                LET due == \/ _is_ready_to_update
                           \/ \E o \in Optimizers :
                                  _per_optimizer_states[o].found_inf_per_device = "inf"
                IN  /\ scaler_call'.super_update <=> due
                    /\ ~due =>
                           (/\ _scale' = _scale
                            /\ _is_ready_to_update' = _is_ready_to_update
                            /\ \A o \in Optimizers :
                                   _per_optimizer_states'[o] =
                                       IF o \in _optimizer_states_to_reset
                                       THEN _refresh_per_optimizer_state
                                       ELSE _per_optimizer_states[o]
                            /\ _optimizer_states_to_reset' = {}
                            /\ scaler_call'.result = "False")
                    /\ (new_scale = None /\ _scale' > _scale) => _is_ready_to_update
       /\ (_is_ready_to_update' /\ ~_is_ready_to_update) =>
              (/\ scaler_call'.op = "step"
               /\ scaler_call'.arg.branch = "global"
               /\ scaler_call'.result = "True")
       /\ (_is_ready_to_update /\ ~_is_ready_to_update') =>
              (scaler_call'.op = "update" /\ scaler_call'.super_update)
       /\ _scale' # _scale => (scaler_call'.op = "update" /\ scaler_call'.super_update)]_vars

\* an update() that returned False: it refreshed the state of the
\* hivemind.Optimizer, which was named in the set, and left alone the state of
\* the inner optimizer, unscaled in the same global step and not named
C19_Witness ==
    /\ scaler_call.op = "update"
    /\ scaler_call.result = "False"
    /\ ~scaler_call.super_update
    /\ _optimizer_states_to_reset = {}
    /\ _per_optimizer_states["hivemind.Optimizer"] = _refresh_per_optimizer_state
    /\ _per_optimizer_states["opt"].stage = "UNSCALED"
    /\ _scale = 2

\* C20: under any interleaving of threads, a step() runs its global-step
\* branch to the end (it may apply the inner optimizer step and it sets
\* _is_ready_to_update) only while _is_running_global_step is true.
C20_GlobalStepOnlyWhileRunning ==
    [][\A th \in Threads :
          (/\ thread[th].pc = "step_global"
           /\ scaler_call'.op = "step" /\ scaler_call'.th = th
           /\ scaler_call'.result = "True"
           /\ step_global_branch(th)) =>
              _is_running_global_step]_vars

\* C20, second half: leaving a running_global_step() context, by a return or
\* by an exception, stores the flag value that the context saved on entry
C20_FlagRestoredOnExit ==
    [][\A th \in Threads, raised \in BOOLEAN :
          (/\ scaler_call'.op = "running_global_step.__exit__" /\ scaler_call'.th = th
           /\ exit_running_global_step(th, raised)) =>
              (/\ Len(thread[th].was_running) > 0
               /\ _is_running_global_step' =
                      thread[th].was_running[Len(thread[th].was_running)]
               /\ (Len(thread[th].was_running) = 1 => ~_is_running_global_step')
               /\ (Len(thread[th].was_running) > 1 => _is_running_global_step'))]_vars

====
